---- MODULE Spec2Model ----
(***************************************************************************)
(* A model of dcm_pool::ObjectsPool<T> (the dynamic, contiguous-memory     *)
(* objects pool), its intrusive HolesList, the ObjectInPool slot and the   *)
(* ObjectPtr handle.                                                       *)
(*                                                                         *)
(* The pool object is the record `pool`, one field per data member.  A     *)
(* std::vector is its sequence of elements, its capacity and the identity  *)
(* of its heap buffer (a reallocation gives a new buffer).  A raw pointer  *)
(* T* is the pair (buffer, index) it points into.  size_t is an unsigned   *)
(* integer of SizeBits bits: every size_t result is reduced modulo         *)
(* 2^SizeBits, so that 0 - 1 = ObjectPoolMaxIndex as in the program.       *)
(*                                                                         *)
(* An access to _objects[i] with i >= size() or through a pointer into a   *)
(* released buffer is undefined behaviour.  The handler in which the       *)
(* first such access happens ends with outcome "ub"; what the access read  *)
(* is any value where the handler shows it to the caller (Iterate).  No    *)
(* behaviour is followed past that handler: nothing can be said about it.  *)
(***************************************************************************)
EXTENDS Integers, Sequences, FiniteSets, TLC

(* ---- bounds of the model ---------------------------------------------- *)
\* Alloc is explored until it has returned MaxAllocs handles.
MaxAllocs == 4
\* Clear is explored at most MaxClears times.
MaxClears == 1
\* the _max_size of a limited pool (0 stands for "unlimited")
LimitK == 2
\* the reserve argument of a pool constructed with a reserve
ReserveN == 2
\* the number of the callback call at which an IterateEx callback breaks
BreakAfter == 1

(* ---- program constants ------------------------------------------------ *)
\* width of size_t in the model (the program's is 64; no index, id or
\* count of the model comes near 2^SizeBits except by wrapping around)
SizeBits == 16
SizeMod == 2 ^ SizeBits
\* defs.h: ObjectPoolMaxIndex = numeric_limits<size_t>::max()
ObjectPoolMaxIndex == SizeMod - 1
\* objects_pool.h: default shrink_threshold
DefaultShrinkThreshold == 1024

\* size_t arithmetic
SizeT(x) == x % SizeMod

\* enum DefragModes
DEFRAG_IMMEDIATE == "DEFRAG_IMMEDIATE"
DEFRAG_DEFERRED == "DEFRAG_DEFERRED"
DEFRAG_MANUAL == "DEFRAG_MANUAL"
DefragModes == {DEFRAG_IMMEDIATE, DEFRAG_DEFERRED, DEFRAG_MANUAL}

VARIABLES
    pool,      \* the ObjectsPool object (a record, one field per member)
    handles,   \* the ObjectPtr handles Alloc returned, in the order returned
    fate,      \* per handle: "live", "released" (a Release of its id returned
               \* since), or "cleared" (Clear was called after Alloc returned it)
    ret,       \* what the last call did: its name, argument, outcome, result
    clears     \* how many times Clear was called

vars == <<pool, handles, fate, ret, clears>>

(* ---- ObjectInPool<T> -------------------------------------------------- *)
\* ObjectInPool(ObjectId id = 0): _id(id), _is_used(false), default _obj
ObjectInPool == [obj |-> 0, id |-> 0, is_used |-> FALSE]

\* the moved-from source of operator=(ObjectInPool&&)
MovedFrom(other) == [other EXCEPT !.is_used = FALSE, !.id = ObjectPoolMaxIndex]

\* objs with  objs[dst] = std::move(objs[src])  applied (0-based indices)
MoveAssign(objs, dst, src) ==
    [objs EXCEPT ![dst + 1] = objs[src + 1], ![src + 1] = MovedFrom(objs[src + 1])]

(* ---- std::unordered_map<ObjectId, size_t> _pointers ------------------- *)
MapSet(m, k, v) == [x \in (DOMAIN m) \cup {k} |-> IF x = k THEN v ELSE m[x]]
MapErase(m, k) == [x \in (DOMAIN m) \ {k} |-> m[x]]
EmptyMap == [x \in {} |-> 0]

(* ---- std::vector<ObjectInPool<T>> _objects ---------------------------- *)
\* capacities push_back may choose when size() = capacity() (the growth
\* factor is the library's choice; a reallocation is not)
GrownCapacities(p) ==
    LET n == Len(p.objects) IN {n + 1, IF n = 0 THEN 1 ELSE 2 * n}

\* _objects.push_back(ObjectInPool<T>()) with new capacity newcap if it grows
VectorPushBack(p, newcap) ==
    IF Len(p.objects) < p.capacity
    THEN [p EXCEPT !.objects = Append(@, ObjectInPool)]
    ELSE [p EXCEPT !.objects = Append(@, ObjectInPool),
                   !.capacity = newcap, !.buffer = @ + 1]

\* _objects.resize(n), n <= max_size(): truncates, or appends default slots
VectorResize(p, n) ==
    IF n <= Len(p.objects)
    THEN [p EXCEPT !.objects = SubSeq(@, 1, n)]
    ELSE LET grown == [i \in 1..n |-> IF i <= Len(p.objects) THEN p.objects[i]
                                      ELSE ObjectInPool]
         IN IF n <= p.capacity
            THEN [p EXCEPT !.objects = grown]
            ELSE [p EXCEPT !.objects = grown, !.capacity = n, !.buffer = @ + 1]

(* ---- HolesList<T> ------------------------------------------------------ *)
\* (a variant of HolesPushBack that does not store the link)
HolesPushBack_NoLink(p, hole_index) ==
    [p EXCEPT !.holes_first_index = hole_index,
              !.holes_size = SizeT(@ + 1)]

\* HolesList::push_back(hole_index); hole_index < _objects.size()
HolesPushBack(p, hole_index) ==
    LET objs == IF p.holes_size # 0
                THEN [p.objects EXCEPT ![hole_index + 1].id = p.holes_first_index]
                ELSE p.objects
    IN [p EXCEPT !.objects = objs,
                 !.holes_first_index = hole_index,
                 !.holes_size = SizeT(@ + 1)]

\* HolesList::pop_back() called with _size > 0: the pool after it, the index
\* returned, and whether reading the link left the vector (fault)
HolesPopBack(p) ==
    IF p.holes_size = 1
    THEN [pool |-> [p EXCEPT !.holes_size = 0],
          index |-> p.holes_first_index, fault |-> FALSE]
    ELSE IF p.holes_first_index >= Len(p.objects)
    THEN [pool |-> p, index |-> p.holes_first_index, fault |-> TRUE]
    ELSE [pool |-> [p EXCEPT !.holes_first_index = p.objects[p.holes_first_index + 1].id,
                             !.holes_size = @ - 1],
          index |-> p.holes_first_index, fault |-> FALSE]

\* HolesList::clear()
HolesClear(p) == [p EXCEPT !.holes_size = 0]

(* ---- ObjectsPool<T> ---------------------------------------------------- *)
\* ObjectsPool(max_size, reserve, shrink_threshold, defrag_mode).
\* _holes._first_index is left uninitialised by the constructor; it is
\* written by every push_back before pop_back can read it.
ObjectsPool(max_size, reserve, shrink_threshold, defrag_mode) ==
    [objects |-> <<>>, capacity |-> reserve, buffer |-> 0,
     pointers |-> EmptyMap,
     holes_size |-> 0, holes_first_index |-> 0,
     next_object_id |-> 0,
     max_size |-> max_size,
     allocated_objects_count |-> 0,
     max_used_index_in_vector |-> 0,
     shrink_pool_threshold |-> shrink_threshold,
     defrag_mode |-> defrag_mode,
     defrags_count |-> 0]

\* a T* into the vector: the buffer it was taken from and the element index
Ptr(p, index) == [buffer |-> p.buffer, index |-> index]
NullPtr == [buffer |-> -1, index |-> 0]

\* AssignObject, the update of _max_used_index_in_vector
AssignMaxUsedIndex(p, index) ==
    IF index > p.max_used_index_in_vector THEN index ELSE p.max_used_index_in_vector

\* (a variant of AssignId that numbers the objects by the count in use)
AssignId_ByCount(p) == p.allocated_objects_count

\* AssignObject, the id given to the object
AssignId(p) == p.next_object_id

\* (a variant of NextId that does not advance)
NextId_Stuck(p) == p.next_object_id

\* AssignObject, _next_object_id after the id was taken (_next_object_id++)
NextId(p) == SizeT(p.next_object_id + 1)

\* AssignObject(index), index < _objects.size(): the pool after it and the
\* ObjectPtr returned (with its cache set by _set_cached_ptr)
AssignObject(p, index) ==
    LET id == AssignId(p)
        q == [p EXCEPT !.allocated_objects_count = SizeT(@ + 1),
                       !.max_used_index_in_vector = AssignMaxUsedIndex(p, index),
                       !.next_object_id = NextId(p),
                       !.objects[index + 1].id = id,
                       !.objects[index + 1].is_used = TRUE,
                       !.pointers = MapSet(@, id, index)]
    IN [pool |-> q, outcome |-> "ok",
        handle |-> [id |-> id, cached_ptr |-> Ptr(q, index),
                    pool_defrag_version |-> q.defrags_count]]

\* a call that ended without returning a handle
NoHandle(p, outcome) ==
    [pool |-> p, outcome |-> outcome,
     handle |-> [id |-> ObjectPoolMaxIndex, cached_ptr |-> NullPtr,
                 pool_defrag_version |-> -1]]

\* (a variant of ExceedsLimit that lets one object more in)
ExceedsLimit_OffByOne(p) == p.max_size # 0 /\ p.allocated_objects_count > p.max_size

\* Alloc, the test of the pool limit
ExceedsLimit(p) == p.max_size # 0 /\ p.allocated_objects_count >= p.max_size

\* (a variant of HasUnusedTail that never finds unused slots at the end)
HasUnusedTail_Never(p) == SizeT(p.max_used_index_in_vector + 1) < 0

\* Alloc, the test for unused objects at the end of the vector
HasUnusedTail(p) == SizeT(p.max_used_index_in_vector + 1) < Len(p.objects)

\* Alloc(); newcap is the capacity the vector takes if push_back reallocates
Alloc(p, newcap) ==
    IF ExceedsLimit(p) THEN NoHandle(p, "ExceededPoolLimit")
    ELSE IF p.holes_size # 0
    THEN LET popped == HolesPopBack(p) IN
         IF popped.fault \/ popped.index >= Len(p.objects)
         THEN NoHandle(popped.pool, "ub")
         ELSE AssignObject(popped.pool, popped.index)
    ELSE IF HasUnusedTail(p)
    THEN AssignObject(p, SizeT(p.max_used_index_in_vector + 1))
    ELSE AssignObject(VectorPushBack(p, newcap), Len(p.objects))

\* ClearUnusedMemory()
ClearUnusedMemory(p) ==
    IF p.holes_size # 0
    THEN [pool |-> p, outcome |-> "CannotResizeWhileNotDefragged"]
    ELSE [pool |-> VectorResize(p, SizeT(p.max_used_index_in_vector + 1)),
          outcome |-> "ok"]

\* Defrag, the stepping back of _max_used_index_in_vector after a move
\* (the do-while loop); m < _objects.size()
RECURSIVE StepBack(_, _)
StepBack(objs, m) ==
    LET n == SizeT(m - 1 + SizeMod) IN
    IF n > 0 /\ n < Len(objs) /\ ~objs[n + 1].is_used THEN StepBack(objs, n) ELSE n

\* Defrag, the test that skips a popped hole
SkipHole(p, index_to_fill) == index_to_fill >= p.max_used_index_in_vector

\* Defrag, the while loop: the pool after it, and whether it left the vector
RECURSIVE DefragLoop(_)
DefragLoop(p) ==
    IF p.holes_size = 0 THEN [pool |-> p, fault |-> FALSE]
    ELSE LET popped == HolesPopBack(p)
             q == popped.pool
             index_to_fill == popped.index
             last == q.max_used_index_in_vector
         IN IF popped.fault THEN [pool |-> q, fault |-> TRUE]
            ELSE IF SkipHole(q, index_to_fill) THEN DefragLoop(q)
            ELSE IF last >= Len(q.objects) \/ index_to_fill >= Len(q.objects)
            THEN [pool |-> q, fault |-> TRUE]
            ELSE LET moved == MoveAssign(q.objects, index_to_fill, last)
                 IN DefragLoop(
                      [q EXCEPT !.objects = moved,
                                !.max_used_index_in_vector = StepBack(moved, last),
                                !.pointers = MapSet(@, moved[index_to_fill + 1].id,
                                                    index_to_fill)])

\* (a variant of NeedsResize that counts the slots after the last used one)
NeedsResize_Exceeds(p) ==
    SizeT(Len(p.objects) - (p.max_used_index_in_vector + 1) + SizeMod)
        > p.shrink_pool_threshold

\* Defrag, the test that trims the vector
NeedsResize(p) ==
    SizeT(Len(p.objects) - p.max_used_index_in_vector + SizeMod)
        > p.shrink_pool_threshold

\* (a variant of Defrag without the early return on an empty holes list)
Defrag_NoEarlyReturn(p) ==
    LET looped == DefragLoop([p EXCEPT !.defrags_count = @ + 1]) IN
    IF looped.fault THEN [pool |-> looped.pool, outcome |-> "ub"]
    ELSE IF NeedsResize(looped.pool) THEN ClearUnusedMemory(looped.pool)
    ELSE [pool |-> looped.pool, outcome |-> "ok"]

\* (a variant of Defrag that leaves _defrags_count alone)
Defrag_NoCount(p) ==
    IF p.holes_size = 0 THEN [pool |-> p, outcome |-> "ok"]
    ELSE LET looped == DefragLoop(p) IN
         IF looped.fault THEN [pool |-> looped.pool, outcome |-> "ub"]
         ELSE IF NeedsResize(looped.pool) THEN ClearUnusedMemory(looped.pool)
         ELSE [pool |-> looped.pool, outcome |-> "ok"]

\* Defrag()
Defrag(p) ==
    IF p.holes_size = 0 THEN [pool |-> p, outcome |-> "ok"]
    ELSE LET looped == DefragLoop([p EXCEPT !.defrags_count = @ + 1]) IN
         IF looped.fault THEN [pool |-> looped.pool, outcome |-> "ub"]
         ELSE IF NeedsResize(looped.pool) THEN ClearUnusedMemory(looped.pool)
         ELSE [pool |-> looped.pool, outcome |-> "ok"]

\* Release(id), the index looked up: _pointers[id] inserts id -> 0 when the
\* id is not a key of the table
ReleaseLookup(p, id) == IF id \in DOMAIN p.pointers THEN p.pointers[id] ELSE 0

\* Release(id), the sanity test on the slot found
ReleaseRefused(p, index) == ~p.objects[index + 1].is_used

\* (a variant of ReleasedLast that takes the first slot for the last)
ReleasedLast_First(p, index) == index = 0

\* Release(id), the test of the easy case
ReleasedLast(p, index) == index = p.max_used_index_in_vector

\* Release(id), the easy case: the new _max_used_index_in_vector
DecreaseUsedIndex(p) == SizeT(p.max_used_index_in_vector - 1 + SizeMod)

\* (a variant of DefragOnRelease that tests for the deferred mode)
DefragOnRelease_Deferred(p) == p.defrag_mode = DEFRAG_DEFERRED

\* Release(id), the test that runs Defrag
DefragOnRelease(p) == p.defrag_mode = DEFRAG_IMMEDIATE

\* Release(ObjectId id); Release(Ptr obj) is Release(obj._get_id())
Release(p, id) ==
    LET index == ReleaseLookup(p, id)
        looked == [p EXCEPT !.pointers = MapSet(@, id, index)]
    IN IF index >= Len(p.objects) THEN [pool |-> looked, outcome |-> "ub"]
       ELSE IF ReleaseRefused(looked, index)
       THEN [pool |-> looked, outcome |-> "AccessViolation"]
       ELSE LET freed == [looked EXCEPT
                            !.pointers = MapErase(@, id),
                            !.allocated_objects_count = SizeT(@ - 1 + SizeMod),
                            !.objects[index + 1].is_used = FALSE]
            IN IF ReleasedLast(freed, index)
               THEN [pool |-> [freed EXCEPT !.max_used_index_in_vector =
                                                DecreaseUsedIndex(freed)],
                     outcome |-> "ok"]
               ELSE LET holed == HolesPushBack(freed, index)
                    IN IF DefragOnRelease(holed) THEN Defrag(holed)
                       ELSE [pool |-> holed, outcome |-> "ok"]

\* size()
size(p) == p.allocated_objects_count

\* (a variant of Clear that goes on numbering the objects)
Clear_KeepIds(p) ==
    [HolesClear(p) EXCEPT !.pointers = EmptyMap,
                          !.objects = <<>>,
                          !.allocated_objects_count = 0,
                          !.max_used_index_in_vector = 0]

\* Clear()
Clear(p) ==
    [HolesClear(p) EXCEPT !.pointers = EmptyMap,
                          !.objects = <<>>,
                          !.allocated_objects_count = 0,
                          !.next_object_id = 0,
                          !.max_used_index_in_vector = 0]

\* (a variant of DefragOnIterate that tests for the immediate mode)
DefragOnIterate_Immediate(p) == p.defrag_mode = DEFRAG_IMMEDIATE

\* (a variant of DefragOnIterate that tests for any mode but the immediate)
DefragOnIterate_NotImmediate(p) == p.defrag_mode # DEFRAG_IMMEDIATE

\* Iterate and IterateEx, the test that runs Defrag first
DefragOnIterate(p) == p.defrag_mode = DEFRAG_DEFERRED

\* (a variant of ScanLast for a scan that stops before the last used index)
ScanLast_Exclusive(p) == p.max_used_index_in_vector - 1

\* Iterate, the last index of the scan
ScanLast(p) == p.max_used_index_in_vector

\* Iterate, the scan of indices i..last inside the vector: the (id, index)
\* of each callback made, in the order made
RECURSIVE Scan(_, _, _)
Scan(objs, i, last) ==
    IF i > last \/ i >= Len(objs) THEN <<>>
    ELSE IF objs[i + 1].is_used
    THEN <<[id |-> objs[i + 1].id, index |-> i]>> \o Scan(objs, i + 1, last)
    ELSE Scan(objs, i + 1, last)

\* Iterate(callback): the pool after it, the callbacks made, and "ub" when
\* the scan (or the Defrag before it) leaves the vector
Iterate(p) ==
    LET d == IF DefragOnIterate(p) THEN Defrag(p) ELSE [pool |-> p, outcome |-> "ok"]
        q == d.pool
    IN IF d.outcome = "ub" THEN [pool |-> q, outcome |-> "ub", visited |-> <<>>]
       ELSE [pool |-> q,
             outcome |-> IF ScanLast(q) >= Len(q.objects) THEN "ub" ELSE "ok",
             visited |-> Scan(q.objects, 0, ScanLast(q))]

\* IterateEx, the break: the result r of the scan cut after the n-th
\* callback call, from which the callback returns ITER_BREAK (n = 0: from
\* none); the scan then reads no slot past that object's
BreakAfterCalls(r, n) ==
    IF n # 0 /\ Len(r.visited) >= n
    THEN [r EXCEPT !.outcome = "ok", !.visited = SubSeq(@, 1, n)]
    ELSE r

\* IterateEx(callback) with a callback that leaves the pool alone and returns
\* ITER_BREAK from its break_after-th call (never, if break_after = 0); but
\* for the break it is Iterate: the same test for Defrag, the same scan
IterateEx(p, break_after) == BreakAfterCalls(Iterate(p), break_after)

(* ---- ObjectPtr<T> ------------------------------------------------------ *)
\* operator*, the test of the cached pointer
CacheValid(p, h) == h.pool_defrag_version = p.defrags_count

\* ObjectsPool::_get_object(id), the lookup _pointers.at(id)
HasPointer(p, id) == id \in DOMAIN p.pointers

\* ObjectPtr::operator*: the handle after it (its cache), the pointer whose
\* target is returned, and "out_of_range" when _pointers.at(id) throws
Resolve(p, h) ==
    IF CacheValid(p, h)
    THEN [handle |-> h, outcome |-> "ok", ptr |-> h.cached_ptr]
    ELSE IF ~HasPointer(p, h.id)
    THEN [handle |-> h, outcome |-> "out_of_range", ptr |-> NullPtr]
    ELSE LET got == Ptr(p, p.pointers[h.id])
         IN [handle |-> [h EXCEPT !.cached_ptr = got,
                                  !.pool_defrag_version = p.defrags_count],
             outcome |-> "ok", ptr |-> got]

(* ---- the state machine ------------------------------------------------- *)
\* constructor arguments explored
MaxSizes == {0, LimitK}
Reserves == {0, ReserveN}
ShrinkThresholds == {0, 1, DefaultShrinkThreshold}

\* the record of a finished call
Result(op, arg, outcome, id, ptr, visited) ==
    [op |-> op, arg |-> arg, outcome |-> outcome, id |-> id, ptr |-> ptr,
     visited |-> visited]
NoId == ObjectPoolMaxIndex

\* no call is made after one that ran into undefined behaviour
Running == ret.outcome # "ub"

\* what a read outside the vector may give Iterate: a slot not in use
\* (NotUsed), or a slot in use with any id
NotUsed == 0 - 1
Garbage == {NotUsed, 0, ObjectPoolMaxIndex}

\* a freshly constructed pool, its arguments drawn from the given sets
InitOf(max_sizes, reserves, thresholds, modes) ==
    /\ pool \in {ObjectsPool(ms, rs, st, dm) :
                    ms \in max_sizes, rs \in reserves,
                    st \in thresholds, dm \in modes}
    /\ handles = <<>>
    /\ fate = <<>>
    /\ ret = Result("ObjectsPool", NoId, "ok", NoId, NullPtr, <<>>)
    /\ clears = 0

\* limited and unlimited pools, constructed without a reserve
Init == InitOf(MaxSizes, {0}, ShrinkThresholds, DefragModes)

\* fate after a Release(id) that returned: the live handles of id are released
Released(id) ==
    [k \in DOMAIN fate |->
        IF fate[k] = "live" /\ handles[k].id = id THEN "released" ELSE fate[k]]

\* h = pool.Alloc(), made while fewer than n handles have been returned
DoAllocUpTo(n) ==
    /\ Running
    /\ Len(handles) < n
    /\ \E newcap \in GrownCapacities(pool) :
        LET r == Alloc(pool, newcap) IN
        /\ pool' = r.pool
        /\ handles' = IF r.outcome = "ok" THEN Append(handles, r.handle) ELSE handles
        /\ fate' = IF r.outcome = "ok" THEN Append(fate, "live") ELSE fate
        /\ ret' = Result("Alloc", NoId, r.outcome, r.handle.id,
                         r.handle.cached_ptr, <<>>)
    /\ UNCHANGED clears

\* h = pool.Alloc()
DoAlloc == DoAllocUpTo(MaxAllocs)

\* pool.Release(h) with the k-th handle returned, which is live
DoReleaseHandle(k) ==
    /\ Running
    /\ k \in DOMAIN handles
    /\ fate[k] = "live"
    /\ LET id == handles[k].id
           r == Release(pool, id) IN
       /\ pool' = r.pool
       /\ fate' = IF r.outcome = "ok" THEN Released(id) ELSE fate
       /\ ret' = Result("Release", id, r.outcome, NoId, NullPtr, <<>>)
    /\ UNCHANGED <<handles, clears>>

\* pool.Release(id) with the id of a handle that is live
DoRelease == \E k \in DOMAIN handles : DoReleaseHandle(k)

\* the ids no live handle has: those released or cleared before, and the
\* next id, which Alloc has not returned yet
StaleIds ==
    ({handles[k].id : k \in DOMAIN handles} \cup {pool.next_object_id})
        \ {handles[k].id : k \in {j \in DOMAIN handles : fate[j] = "live"}}

\* pool.Release(id) with an id no live handle has
DoReleaseStale ==
    /\ Running
    /\ \E id \in StaleIds :
        /\ LET r == Release(pool, id) IN
           /\ pool' = r.pool
           /\ ret' = Result("Release", id, r.outcome, NoId, NullPtr, <<>>)
    /\ UNCHANGED <<handles, fate, clears>>

\* pool.Defrag()
DoDefrag ==
    /\ Running
    /\ LET r == Defrag(pool) IN
       /\ pool' = r.pool
       /\ ret' = Result("Defrag", NoId, r.outcome, NoId, NullPtr, <<>>)
    /\ UNCHANGED <<handles, fate, clears>>

\* pool.Iterate(callback)
DoIterate ==
    /\ Running
    /\ \E g \in Garbage :
        LET r == Iterate(pool)
            outside == r.outcome = "ub" /\ ScanLast(r.pool) >= Len(r.pool.objects)
            seen == IF outside /\ g # NotUsed
                    THEN Append(r.visited, [id |-> g, index |-> Len(r.pool.objects)])
                    ELSE r.visited
        IN /\ pool' = r.pool
           /\ ret' = Result("Iterate", NoId, r.outcome, NoId, NullPtr, seen)
    /\ UNCHANGED <<handles, fate, clears>>

\* pool.IterateEx(callback)
DoIterateEx ==
    /\ Running
    /\ \E g \in Garbage, break_after \in {0, BreakAfter} :
        LET r == IterateEx(pool, break_after)
            outside == r.outcome = "ub" /\ ScanLast(r.pool) >= Len(r.pool.objects)
            seen == IF outside /\ g # NotUsed
                    THEN Append(r.visited, [id |-> g, index |-> Len(r.pool.objects)])
                    ELSE r.visited
        IN /\ pool' = r.pool
           /\ ret' = Result("IterateEx", break_after, r.outcome, NoId, NullPtr, seen)
    /\ UNCHANGED <<handles, fate, clears>>

\* *h for a handle Alloc returned
DoResolve ==
    /\ Running
    /\ \E k \in DOMAIN handles :
        LET r == Resolve(pool, handles[k]) IN
        /\ handles' = [handles EXCEPT ![k] = r.handle]
        /\ ret' = Result("Resolve", k, r.outcome, handles[k].id, r.ptr, <<>>)
    /\ UNCHANGED <<pool, fate, clears>>

\* pool.ClearUnusedMemory()
DoClearUnusedMemory ==
    /\ Running
    /\ LET r == ClearUnusedMemory(pool) IN
       /\ pool' = r.pool
       /\ ret' = Result("ClearUnusedMemory", NoId, r.outcome, NoId, NullPtr, <<>>)
    /\ UNCHANGED <<handles, fate, clears>>

\* pool.Clear()
DoClear ==
    /\ Running
    /\ clears < MaxClears
    /\ pool' = Clear(pool)
    /\ fate' = [k \in DOMAIN fate |-> "cleared"]
    /\ ret' = Result("Clear", NoId, "ok", NoId, NullPtr, <<>>)
    /\ clears' = clears + 1
    /\ UNCHANGED handles

\* Alloc, Release of live ids, Defrag and Iterate
Next == DoAlloc \/ DoRelease \/ DoDefrag \/ DoIterate
Spec == Init /\ [][Next]_vars

\* the same calls and the use of the handles, on unlimited pools
InitPtr == InitOf({0}, Reserves, {0, DefaultShrinkThreshold}, DefragModes)
NextPtr == DoAlloc \/ DoRelease \/ DoDefrag \/ DoIterate \/ DoResolve
SpecPtr == InitPtr /\ [][NextPtr]_vars

\* the calls of Spec and Clear, on unlimited pools that defrag on Release
\* or on request only
InitClear == InitOf({0}, {0}, {0, DefaultShrinkThreshold},
                    {DEFRAG_IMMEDIATE, DEFRAG_MANUAL})
NextClear == DoAlloc \/ DoRelease \/ DoDefrag \/ DoIterate \/ DoClear
SpecClear == InitClear /\ [][NextClear]_vars

\* the calls of Spec and Release with ids that are not live
InitStale == InitOf({0}, {0}, {DefaultShrinkThreshold},
                    {DEFRAG_IMMEDIATE, DEFRAG_MANUAL})
NextStale == DoAlloc \/ DoRelease \/ DoReleaseStale \/ DoDefrag \/ DoIterate
SpecStale == InitStale /\ [][NextStale]_vars

\* the calls of Spec and ClearUnusedMemory, on unlimited pools that defrag
\* on Iterate or on request only
InitTrim == InitOf({0}, {0}, {1, DefaultShrinkThreshold},
                   {DEFRAG_DEFERRED, DEFRAG_MANUAL})
NextTrim == DoAlloc \/ DoRelease \/ DoDefrag \/ DoIterate \/ DoClearUnusedMemory
SpecTrim == InitTrim /\ [][NextTrim]_vars

\* the calls of Spec and IterateEx, on unlimited pools that defrag on
\* Iterate or on request only
InitIter == InitOf({0}, {0}, {DefaultShrinkThreshold},
                   {DEFRAG_DEFERRED, DEFRAG_MANUAL})
NextIter == DoAlloc \/ DoRelease \/ DoDefrag \/ DoIterate \/ DoIterateEx
SpecIter == InitIter /\ [][NextIter]_vars

\* no Release has been called yet
AllLive == \A k \in DOMAIN fate : fate[k] = "live"

\* the scenario of five objects: Alloc five times, Release the third object
\* (id 2), Release the fifth (id 4), Defrag; the handles are used at any
\* time and the pool is iterated after the Defrag.  The pools are unlimited
\* and defrag on Iterate or on request only.
InitFive == InitOf({0}, Reserves, ShrinkThresholds, {DEFRAG_DEFERRED, DEFRAG_MANUAL})
FiveAllocs == AllLive /\ DoAllocUpTo(5)
ReleaseThird == Len(handles) = 5 /\ AllLive /\ DoReleaseHandle(3)
ReleaseFifth == Len(handles) = 5 /\ fate[3] = "released" /\ DoReleaseHandle(5)
DefragFive ==
    /\ Len(handles) = 5 /\ fate[5] = "released" /\ pool.defrags_count = 0
    /\ DoDefrag
IterateFive == pool.defrags_count > 0 /\ (DoIterate \/ DoIterateEx)
NextFive ==
    FiveAllocs \/ ReleaseThird \/ ReleaseFifth \/ DefragFive \/ IterateFive
        \/ DoResolve
SpecFive == InitFive /\ [][NextFive]_vars

\* the scenario of a pool limited to three objects: Alloc three times, a
\* fourth Alloc (refused), Release the second object (id 1), Alloc, Defrag,
\* Iterate or IterateEx; in every defrag mode
InitThree == InitOf({3}, Reserves, ShrinkThresholds, DefragModes)
ThreeAllocs == AllLive /\ DoAllocUpTo(3)
FourthAlloc ==
    /\ Len(handles) = 3 /\ AllLive /\ ret.op = "Alloc" /\ ret.outcome = "ok"
    /\ DoAllocUpTo(4)
ReleaseSecond ==
    /\ Len(handles) = 3 /\ AllLive /\ ret.outcome = "ExceededPoolLimit"
    /\ DoReleaseHandle(2)
AllocAgain == Len(handles) = 3 /\ ~AllLive /\ DoAllocUpTo(4)
DefragThree == Len(handles) = 4 /\ ret.op = "Alloc" /\ DoDefrag
IterateThree == Len(handles) = 4 /\ ret.op = "Defrag" /\ (DoIterate \/ DoIterateEx)
NextThree ==
    ThreeAllocs \/ FourthAlloc \/ ReleaseSecond \/ AllocAgain \/ DefragThree
        \/ IterateThree
SpecThree == InitThree /\ [][NextThree]_vars

(* ---- what the claims speak of ------------------------------------------ *)
\* the handles whose object was allocated and not released or cleared since
LiveHandles == {k \in DOMAIN handles : fate[k] = "live"}
\* the handles returned since the last Clear (or since construction)
CurrentHandles == {k \in DOMAIN handles : fate[k] # "cleared"}
\* the 0-based indices of the slots marked in use
UsedIndices == {i \in 0..(Len(pool.objects) - 1) : pool.objects[i + 1].is_used}
\* a pointer that points at an element of the vector as it is now
Dereferenceable(ptr) == ptr.buffer = pool.buffer /\ ptr.index < Len(pool.objects)

\* the pool without what no id, size, slot index or callback depends on: the
\* generation of the handles' caches, the vector's capacity and buffer, and
\* the head of an empty holes list
Observable(p) ==
    [p EXCEPT !.defrags_count = 0, !.capacity = 0, !.buffer = 0,
              !.holes_first_index = IF p.holes_size = 0 THEN 0 ELSE @]
\* the pool as the constructor leaves it, with the arguments p was given
Fresh(p) == ObjectsPool(p.max_size, 0, p.shrink_pool_threshold, p.defrag_mode)
\* two results of Alloc, Release, Defrag or Iterate that look the same
SameAlloc(a, b) ==
    /\ a.outcome = b.outcome /\ Observable(a.pool) = Observable(b.pool)
    /\ a.handle.id = b.handle.id
    /\ a.handle.cached_ptr.index = b.handle.cached_ptr.index
SameDone(a, b) == a.outcome = b.outcome /\ Observable(a.pool) = Observable(b.pool)
SameVisits(a, b) == SameDone(a, b) /\ a.visited = b.visited

\* the indices met when the holes list is followed for n links from index i
\* through the id fields (as pop_back follows it), up to the first index
\* outside the vector
RECURSIVE HolesChain(_, _, _)
HolesChain(objs, i, n) ==
    IF n = 0 THEN <<>>
    ELSE IF i >= Len(objs) THEN <<i>>
    ELSE <<i>> \o HolesChain(objs, objs[i + 1].id, n - 1)
\* Defrag, the while loop seen pop by pop: for each index popped, whether it
\* is an index of the vector, whether the slot there is in use, and whether
\* the move made for it resets the id field of a hole still listed that is
\* not the last of the list (its id field is the link to the next hole)
RECURSIVE DefragPops(_)
DefragPops(p) ==
    IF p.holes_size = 0 THEN <<>>
    ELSE LET popped == HolesPopBack(p)
             q == popped.pool
             index_to_fill == popped.index
             last == q.max_used_index_in_vector
             pending == HolesChain(q.objects, q.holes_first_index, q.holes_size)
             seen == [index |-> index_to_fill,
                      in_vector |-> index_to_fill < Len(p.objects),
                      in_use |-> index_to_fill < Len(p.objects)
                                    /\ p.objects[index_to_fill + 1].is_used,
                      link_lost |-> /\ ~popped.fault
                                    /\ ~SkipHole(q, index_to_fill)
                                    /\ \E n \in 1..(Len(pending) - 1) : pending[n] = last]
         IN IF popped.fault THEN <<seen>>
            ELSE IF SkipHole(q, index_to_fill) THEN <<seen>> \o DefragPops(q)
            ELSE IF last >= Len(q.objects) \/ index_to_fill >= Len(q.objects)
            THEN <<seen>>
            ELSE LET moved == MoveAssign(q.objects, index_to_fill, last)
                 IN <<seen>> \o DefragPops(
                      [q EXCEPT !.objects = moved,
                                !.max_used_index_in_vector = StepBack(moved, last),
                                !.pointers = MapSet(@, moved[index_to_fill + 1].id,
                                                    index_to_fill)])

\* the chain of the pool's holes list
Holes == HolesChain(pool.objects, pool.holes_first_index, pool.holes_size)

(* ---- the claims --------------------------------------------------------- *)
\* C1: resolving a handle whose id has not been released succeeds and gives
\* the slot of the vector that is in use and carries the handle's id, also
\* after Defrag has moved the object.
C1_LiveHandleResolves ==
    (ret.op = "Resolve" /\ fate[ret.arg] = "live") =>
        /\ ret.outcome = "ok"
        /\ Dereferenceable(ret.ptr)
        /\ pool.objects[ret.ptr.index + 1].is_used
        /\ pool.objects[ret.ptr.index + 1].id = handles[ret.arg].id

\* C1, the same with the pointer taken to be into the current buffer: the
\* index resolved to holds the handle's object.
C1_LiveHandleIndex ==
    (ret.op = "Resolve" /\ fate[ret.arg] = "live" /\ ret.outcome = "ok") =>
        /\ ret.ptr.index < Len(pool.objects)
        /\ pool.objects[ret.ptr.index + 1].is_used
        /\ pool.objects[ret.ptr.index + 1].id = handles[ret.arg].id

\* C2: once an id has been released, every later resolve of a handle with
\* that id fails with AccessViolation.
C2_ReleasedHandleFails ==
    (ret.op = "Resolve" /\ fate[ret.arg] = "released") =>
        ret.outcome = "AccessViolation"

\* C2, second half: a handle never resolves to an object that another Alloc
\* call allocated (a slot in use under another id).
C2_NeverAnotherObject ==
    (ret.op = "Resolve" /\ ret.outcome = "ok" /\ Dereferenceable(ret.ptr)
        /\ pool.objects[ret.ptr.index + 1].is_used) =>
        pool.objects[ret.ptr.index + 1].id = handles[ret.arg].id

\* C3: Release(id) with an id that maps to no in-use slot (released before,
\* or never returned by Alloc) fails with AccessViolation and releases no
\* object: the in-use flags and size() are as before.  (Stated of the calls
\* whose behaviour is defined; on an empty vector the call reads
\* _objects[0] outside it.)
C3_StaleReleaseRefused ==
    [][(DoReleaseStale /\ ret'.outcome # "ub") =>
        /\ ret'.outcome = "AccessViolation"
        /\ pool'.objects = pool.objects
        /\ size(pool') = size(pool)]_vars

\* C4: no two in-use slots carry the same id, and the ids Alloc returned
\* since the last Clear are strictly increasing in the order returned.
C4_IdsUnique ==
    /\ \A i, j \in UsedIndices :
          i # j => pool.objects[i + 1].id # pool.objects[j + 1].id
    /\ \A a, b \in CurrentHandles : a < b => handles[a].id < handles[b].id

\* C4 witness: three handles returned, one released, and two slots in use
C4_Witness ==
    /\ Cardinality(CurrentHandles) >= 3
    /\ \E k \in CurrentHandles : fate[k] = "released"
    /\ Cardinality(UsedIndices) >= 2

\* C5: size() is the number of Alloc calls that succeeded minus the number
\* of Release calls that succeeded, and the number of slots marked in use.
C5_CountConservation ==
    /\ size(pool) = Cardinality(LiveHandles)
    /\ size(pool) = Cardinality(UsedIndices)

\* C6: with _max_size = K > 0 Alloc fails with ExceededPoolLimit exactly
\* when size() >= K and succeeds otherwise, so size() never exceeds K; with
\* _max_size = 0 it never fails so.
C6_CapacityBound ==
    /\ [](pool.max_size # 0 => size(pool) <= pool.max_size)
    /\ [][DoAlloc =>
            IF pool.max_size # 0 /\ size(pool) >= pool.max_size
            THEN ret'.outcome = "ExceededPoolLimit"
            ELSE ret'.outcome = "ok" /\ size(pool') = size(pool) + 1]_vars

\* C6 witness: a limited pool was full, an object was released, and the
\* Alloc after it succeeded and filled the pool again
C6_Witness ==
    /\ pool.max_size = LimitK
    /\ ret.op = "Alloc" /\ ret.outcome = "ok"
    /\ size(pool) = LimitK
    /\ \E k \in DOMAIN handles : fate[k] = "released"

\* C7: when Defrag has returned the free-list is empty and, if the pool is
\* not empty, every slot index in [0, _max_used_index_in_vector] is in use.
C7_PackedAfterDefrag ==
    (ret.op = "Defrag" /\ ret.outcome = "ok") =>
        /\ pool.holes_size = 0
        /\ size(pool) > 0 =>
              /\ pool.max_used_index_in_vector < Len(pool.objects)
              /\ \A i \in 0..pool.max_used_index_in_vector : i \in UsedIndices

\* the (id, index) of the live objects, in increasing index order
RECURSIVE LiveInOrder(_)
LiveInOrder(i) ==
    IF i >= Len(pool.objects) THEN <<>>
    ELSE IF pool.objects[i + 1].is_used
            /\ \E k \in LiveHandles : handles[k].id = pool.objects[i + 1].id
    THEN <<[id |-> pool.objects[i + 1].id, index |-> i]>> \o LiveInOrder(i + 1)
    ELSE LiveInOrder(i + 1)

\* C8: Iterate calls the visitor once for each live object, with its id, in
\* increasing index order, never for a released object, and size() times
\* in all, in every state (also on the empty pool).
C8_IterateVisitsLive ==
    ret.op = "Iterate" =>
        /\ ret.outcome = "ok"
        /\ ret.visited = LiveInOrder(0)
        /\ Len(ret.visited) = size(pool)
        /\ Cardinality({ret.visited[n].id : n \in DOMAIN ret.visited})
              = Cardinality(LiveHandles)

\* C9: Alloc never returns an id that an earlier Alloc on the pool returned,
\* Clear or no Clear.
C9_IdNeverReused ==
    \A a, b \in DOMAIN handles : a # b => handles[a].id # handles[b].id

\* C9 as amended: Alloc never returns an id that an earlier Alloc returned
\* since the last Clear (or since construction); Clear sets the next id to 0.
C9_IdNotReusedSinceClear ==
    /\ \A a, b \in CurrentHandles : a # b => handles[a].id # handles[b].id
    /\ \A a \in CurrentHandles : handles[a].id < pool.next_object_id
    /\ ret.op = "Clear" => pool.next_object_id = 0

\* C9 witness: after a Clear, two handles were returned and one released
C9_Witness ==
    /\ clears > 0
    /\ Cardinality(CurrentHandles) >= 2
    /\ \E k \in CurrentHandles : fate[k] = "released"

\* C10: Defrag on a pool whose free-list is empty changes nothing: not
\* _defrags_count, the vector, the id table, _max_used_index_in_vector or
\* the count.
C10_DefragNoHolesNoOp ==
    [][(DoDefrag /\ pool.holes_size = 0) => pool' = pool]_vars

\* C10 witness: Defrag returned on a pool never defragged before that holds
\* objects and a spare slot past _max_used_index_in_vector
C10_Witness ==
    /\ ret.op = "Defrag" /\ ret.outcome = "ok"
    /\ pool.defrags_count = 0
    /\ size(pool) > 0
    /\ pool.max_used_index_in_vector + 1 < Len(pool.objects)

\* C11: ClearUnusedMemory fails with CannotResizeWhileNotDefragged (and
\* changes nothing) when the holes list is not empty; when it is empty the
\* vector gets the size _max_used_index_in_vector + 1, and afterwards the id
\* of every live handle still maps to a slot in use inside the vector.
C11_ClearUnusedMemory ==
    [][DoClearUnusedMemory =>
        IF pool.holes_size # 0
        THEN ret'.outcome = "CannotResizeWhileNotDefragged" /\ pool' = pool
        ELSE /\ ret'.outcome = "ok"
             /\ Len(pool'.objects) = SizeT(pool.max_used_index_in_vector + 1)
             /\ \A k \in LiveHandles :
                   /\ handles[k].id \in DOMAIN pool'.pointers
                   /\ pool'.pointers[handles[k].id] < Len(pool'.objects)
                   /\ pool'.objects[pool'.pointers[handles[k].id] + 1].is_used]_vars

\* C11, the part about the holes list and the new size alone
C11_TrimToFrontier ==
    [][DoClearUnusedMemory =>
        IF pool.holes_size # 0
        THEN ret'.outcome = "CannotResizeWhileNotDefragged" /\ pool' = pool
        ELSE /\ ret'.outcome = "ok"
             /\ Len(pool'.objects) = SizeT(pool.max_used_index_in_vector + 1)]_vars

\* C12: in DEFRAG_IMMEDIATE mode the holes list is empty whenever a Release
\* call has returned (and so between any two calls).
C12_ImmediateNoHoles ==
    (pool.defrag_mode = DEFRAG_IMMEDIATE /\ ret.outcome = "ok") =>
        pool.holes_size = 0

\* C12 witness: in DEFRAG_IMMEDIATE mode a Release of an object that was not
\* the last one returned; Defrag has run inside it and objects remain
C12_Witness ==
    /\ pool.defrag_mode = DEFRAG_IMMEDIATE
    /\ ret.op = "Release" /\ ret.outcome = "ok"
    /\ pool.defrags_count > 0
    /\ size(pool) >= 2

\* C13: in DEFRAG_DEFERRED mode Release never runs Defrag (it leaves
\* _defrags_count, the holes already listed and every slot in use as they
\* are), and Iterate and IterateEx run Defrag before the scan, so that the
\* holes list is empty while the callback is called.
C13_DeferredDefragOnIterate ==
    /\ []((pool.defrag_mode = DEFRAG_DEFERRED /\ ret.op \in {"Iterate", "IterateEx"}
            /\ ret.outcome = "ok") => pool.holes_size = 0)
    /\ [][(DoRelease /\ pool.defrag_mode = DEFRAG_DEFERRED /\ ret'.outcome = "ok") =>
            /\ pool'.defrags_count = pool.defrags_count
            /\ pool'.holes_size >= pool.holes_size
            /\ Len(pool'.objects) = Len(pool.objects)
            /\ \A i \in DOMAIN pool.objects :
                  pool'.objects[i].is_used => pool'.objects[i] = pool.objects[i]]_vars

\* C13 witness: in DEFRAG_DEFERRED mode an Iterate or IterateEx has called
\* the callback after the one Defrag so far and after two Release calls
C13_Witness ==
    /\ pool.defrag_mode = DEFRAG_DEFERRED
    /\ ret.op \in {"Iterate", "IterateEx"} /\ ret.outcome = "ok"
    /\ Len(ret.visited) > 0
    /\ pool.defrags_count = 1
    /\ Cardinality({k \in DOMAIN fate : fate[k] = "released"}) >= 2

\* C14: in DEFRAG_MANUAL mode Alloc, Release, Iterate and IterateEx leave
\* _defrags_count as it is and do not change the index the id table gives
\* for an object that stays live; an explicit Defrag does both.
C14_ManualNoAutoDefrag ==
    [][(pool.defrag_mode = DEFRAG_MANUAL
            /\ ret'.op \in {"Alloc", "Release", "Iterate", "IterateEx"}) =>
        /\ pool'.defrags_count = pool.defrags_count
        /\ \A k \in LiveHandles :
              (fate'[k] = "live" /\ handles[k].id \in DOMAIN pool.pointers) =>
                  /\ handles[k].id \in DOMAIN pool'.pointers
                  /\ pool'.pointers[handles[k].id] = pool.pointers[handles[k].id]]_vars

\* C14 witness: in DEFRAG_MANUAL mode an Iterate returned while a hole was
\* listed, after an explicit Defrag had moved a live object away from the
\* index Alloc gave it
C14_Witness ==
    /\ pool.defrag_mode = DEFRAG_MANUAL
    /\ ret.op \in {"Iterate", "IterateEx"} /\ ret.outcome = "ok"
    /\ pool.holes_size > 0
    /\ pool.defrags_count > 0
    /\ \E k \in LiveHandles :
          /\ handles[k].id \in DOMAIN pool.pointers
          /\ pool.pointers[handles[k].id] # handles[k].cached_ptr.index

\* C15: on a fresh pool without immediate defrag, five Allocs give ids 0..4
\* at indices 0..4; Release of id 2 leaves one hole (index 2) and the
\* frontier at 4; Release of id 4 moves the frontier to 3 and adds no hole;
\* Defrag then moves the object with id 3 to index 2, maps id 3 to index 2,
\* leaves the frontier at 2 and the holes list empty, and the objects in use
\* are ids 0, 1, 3 at indices 0, 1, 2.
C15_FiveObjectsScenario ==
    /\ (Len(handles) = 5 /\ AllLive) =>
          \A k \in 1..5 :
              /\ handles[k].id = k - 1
              /\ pool.pointers[k - 1] = k - 1
              /\ pool.objects[k] = [obj |-> 0, id |-> k - 1, is_used |-> TRUE]
    /\ (Len(handles) = 5 /\ fate = <<"live", "live", "released", "live", "live">>) =>
          /\ pool.holes_size = 1 /\ pool.holes_first_index = 2
          /\ pool.max_used_index_in_vector = 4
    /\ (Len(handles) = 5 /\ fate[5] = "released" /\ pool.defrags_count = 0) =>
          /\ pool.holes_size = 1 /\ pool.holes_first_index = 2
          /\ pool.max_used_index_in_vector = 3
    /\ (Len(handles) = 5 /\ fate[5] = "released" /\ pool.defrags_count > 0) =>
          /\ pool.defrags_count = 1
          /\ pool.objects[3] = [obj |-> 0, id |-> 3, is_used |-> TRUE]
          /\ pool.pointers = [id \in {0, 1, 3} |-> IF id = 3 THEN 2 ELSE id]
          /\ pool.max_used_index_in_vector = 2
          /\ pool.holes_size = 0
          /\ UsedIndices = {0, 1, 2}
          /\ \A i \in UsedIndices : pool.pointers[pool.objects[i + 1].id] = i
          /\ size(pool) = 3

\* C15 witness: the Defrag of the scenario has returned
C15_Witness ==
    /\ Len(handles) = 5
    /\ fate = <<"live", "live", "released", "live", "released">>
    /\ ret.op = "Defrag" /\ ret.outcome = "ok"
    /\ pool.defrags_count = 1

\* C16: with _max_size = 3, three Allocs succeed with ids 0, 1, 2 and the
\* fourth fails with ExceededPoolLimit; after Release of id 1 the next Alloc
\* succeeds and size() is 3 again; the Defrag after it leaves no hole and
\* the Iterate after that visits exactly 3 objects.
C16_LimitThreeScenario ==
    pool.max_size = 3 =>
        /\ (AllLive /\ ret.op = "Alloc" /\ ret.outcome = "ok") =>
              /\ size(pool) = Len(handles)
              /\ \A k \in DOMAIN handles : handles[k].id = k - 1
        /\ (AllLive /\ ret.op = "Alloc" /\ Len(handles) = 3) =>
              (ret.outcome = "ExceededPoolLimit" \/ ret.id = 2)
        /\ ret.outcome = "ExceededPoolLimit" =>
              Len(handles) = 3 /\ AllLive /\ size(pool) = 3
        /\ (ret.op = "Release") => ret.outcome = "ok" /\ size(pool) = 2
        /\ (~AllLive /\ ret.op = "Alloc") =>
              ret.outcome = "ok" /\ Len(handles) = 4 /\ size(pool) = 3
        /\ ret.op = "Defrag" =>
              ret.outcome = "ok" /\ pool.holes_size = 0 /\ size(pool) = 3
        /\ (ret.op = "Iterate" \/ (ret.op = "IterateEx" /\ ret.arg = 0)) =>
              /\ ret.outcome = "ok"
              /\ Len(ret.visited) = 3
              /\ {ret.visited[n].id : n \in DOMAIN ret.visited} = {0, 2, 3}

\* C16 witness: the Iterate of the scenario has returned
C16_Witness ==
    /\ pool.max_size = 3
    /\ Len(handles) = 4 /\ fate = <<"live", "released", "live", "live">>
    /\ ret.op = "Iterate" /\ ret.outcome = "ok"

\* C17: after Clear size() is 0 and the id table and the holes list are
\* empty, and the calls that follow give the ids, sizes, slot indices and
\* visits they give on a freshly constructed pool with the same arguments:
\* the cleared pool is the fresh pool but for _defrags_count, the capacity
\* and the head of the empty holes list, and no call's result or effect
\* depends on those (every call made on a pool and on the same pool with
\* these three reset gives the same result and pools that differ in these
\* three only).
C17_ClearAsFresh ==
    /\ ret.op = "Clear" =>
          /\ size(pool) = 0 /\ pool.pointers = EmptyMap /\ pool.holes_size = 0
          /\ Observable(pool) = Observable(Fresh(pool))
    /\ \A newcap \in GrownCapacities(pool) :
          SameAlloc(Alloc(pool, newcap), Alloc(Observable(pool), newcap))
    /\ \A k \in LiveHandles :
          SameDone(Release(pool, handles[k].id),
                   Release(Observable(pool), handles[k].id))
    /\ SameDone(Defrag(pool), Defrag(Observable(pool)))
    /\ SameVisits(Iterate(pool), Iterate(Observable(pool)))

\* C17 witness: after a Clear three objects were allocated, one was released
\* and an explicit Defrag moved another to a new index
C17_Witness ==
    /\ clears > 0
    /\ ret.op = "Defrag" /\ ret.outcome = "ok"
    /\ \E k \in CurrentHandles : fate[k] = "released"
    /\ \E k \in CurrentHandles \cap LiveHandles :
          /\ handles[k].id \in DOMAIN pool.pointers
          /\ pool.pointers[handles[k].id] # handles[k].cached_ptr.index

\* C18: Alloc assigns only a slot that is not in use, so that the id table
\* never gives the same index for two different live ids.
C18_NoSharedSlot ==
    /\ \A a, b \in LiveHandles :
          (/\ handles[a].id # handles[b].id
           /\ handles[a].id \in DOMAIN pool.pointers
           /\ handles[b].id \in DOMAIN pool.pointers) =>
              pool.pointers[handles[a].id] # pool.pointers[handles[b].id]
    /\ (ret.op = "Alloc" /\ ret.outcome = "ok") =>
          Cardinality(UsedIndices) = Cardinality(LiveHandles)

\* C19: after each completed call the id table maps id to index i exactly
\* when slot i is in use and carries id: no entry for a released id, none
\* that points at a free slot, and every slot in use has its entry.
C19_TableConsistent ==
    Running =>
        /\ \A id \in DOMAIN pool.pointers :
              /\ pool.pointers[id] < Len(pool.objects)
              /\ pool.objects[pool.pointers[id] + 1].is_used
              /\ pool.objects[pool.pointers[id] + 1].id = id
        /\ \A i \in UsedIndices :
              /\ pool.objects[i + 1].id \in DOMAIN pool.pointers
              /\ pool.pointers[pool.objects[i + 1].id] = i

\* C20: in every reachable state, the freshly constructed pool included,
\* _max_used_index_in_vector < _objects.size(), so that the scan of Iterate
\* and IterateEx over 0.._max_used_index_in_vector stays inside the vector.
C20_FrontierInVector ==
    /\ pool.max_used_index_in_vector < Len(pool.objects)
    /\ ret.op \in {"Iterate", "IterateEx"} => ret.outcome # "ub"

\* C20, the scan alone: no Iterate or IterateEx reads outside the vector
C20_ScanInVector ==
    ret.op \in {"Iterate", "IterateEx"} => ret.outcome # "ub"

\* C21: whenever size() > 0, _max_used_index_in_vector is the highest index
\* of a slot in use: the slot at it is in use and no slot in use lies above.
C21_FrontierIsHighestUsed ==
    (Running /\ size(pool) > 0) =>
        /\ pool.max_used_index_in_vector < Len(pool.objects)
        /\ pool.objects[pool.max_used_index_in_vector + 1].is_used
        /\ \A i \in UsedIndices : i <= pool.max_used_index_in_vector

\* C22: the decrement of _max_used_index_in_vector in Release never wraps
\* around: a Release of the object at index 0 with the frontier at 0 leaves
\* the frontier at 0 (the frontier never becomes the greatest size_t), and
\* every Alloc places its object at an index <= the frontier.
C22_NoFrontierWrap ==
    /\ [][(DoRelease /\ ret'.outcome = "ok" /\ pool.max_used_index_in_vector = 0) =>
            pool'.max_used_index_in_vector = 0]_vars
    /\ [](pool.max_used_index_in_vector # ObjectPoolMaxIndex)
    /\ []((ret.op = "Alloc" /\ ret.outcome = "ok") =>
            ret.ptr.index <= pool.max_used_index_in_vector)

\* C23: in every state with size() > 0 and an empty holes list, every slot
\* index in [0, _max_used_index_in_vector] is in use (no free slot at or
\* below the frontier is missing from the holes list).
C23_NoHolesMeansPacked ==
    (Running /\ size(pool) > 0 /\ pool.holes_size = 0) =>
        /\ pool.max_used_index_in_vector < Len(pool.objects)
        /\ \A i \in 0..pool.max_used_index_in_vector : i \in UsedIndices

\* C24: after every completed call, following the holes list from
\* _first_index through the id fields visits exactly _holes.size() distinct
\* indices, each inside the vector and each a slot that is not in use.
C24_HolesListIntact ==
    Running =>
        /\ Len(Holes) = pool.holes_size
        /\ \A m, n \in DOMAIN Holes : m # n => Holes[m] # Holes[n]
        /\ \A n \in DOMAIN Holes :
              Holes[n] < Len(pool.objects) /\ ~pool.objects[Holes[n] + 1].is_used

\* C24 witness: a Release has listed a second hole, in a pool where an
\* Alloc had taken a hole back before (two handles were given one index)
C24_Witness ==
    /\ ret.op = "Release" /\ ret.outcome = "ok"
    /\ pool.holes_size = 2
    /\ \E a, b \in DOMAIN handles :
          a # b /\ handles[a].cached_ptr.index = handles[b].cached_ptr.index

\* C25: while Defrag runs, every index it pops from the holes list is an
\* index of the vector whose slot is not in use, and no move resets the id
\* field (the link) of a hole that is still listed.
C25_DefragPopsValid ==
    [][DoDefrag =>
        \A n \in DOMAIN DefragPops(pool) :
            /\ DefragPops(pool)[n].in_vector
            /\ ~DefragPops(pool)[n].in_use
            /\ ~DefragPops(pool)[n].link_lost]_vars

\* C26: Defrag keeps the live objects: the id table has the same keys
\* before and after, and every live id maps, after Defrag, to a slot in use
\* that carries this id and the payload the id led to before.
C26_DefragPreservesLive ==
    [][(DoDefrag /\ ret'.outcome = "ok") =>
        /\ DOMAIN pool'.pointers = DOMAIN pool.pointers
        /\ \A id \in DOMAIN pool.pointers :
              (/\ pool.pointers[id] < Len(pool.objects)
               /\ pool.objects[pool.pointers[id] + 1].is_used
               /\ pool.objects[pool.pointers[id] + 1].id = id) =>
                  /\ pool'.pointers[id] < Len(pool'.objects)
                  /\ pool'.objects[pool'.pointers[id] + 1] =
                        pool.objects[pool.pointers[id] + 1]]_vars

\* C27: whenever the generation cached in a handle equals _defrags_count
\* and the handle's object is live, the pointer cached in the handle points
\* at the slot the id table gives for the id, in the vector's current
\* buffer; also after an Alloc that reallocated the vector.
C27_CacheSound ==
    Running =>
        \A k \in LiveHandles :
            (/\ CacheValid(pool, handles[k])
             /\ handles[k].id \in DOMAIN pool.pointers) =>
                /\ Dereferenceable(handles[k].cached_ptr)
                /\ handles[k].cached_ptr.index = pool.pointers[handles[k].id]

\* C28: _defrags_count never decreases; a Defrag() call that starts with a
\* non-empty holes list increases it by exactly one and one that starts
\* with an empty list leaves it alone; only a step that runs Defrag (the
\* call itself, Release in the immediate mode, Iterate in the deferred
\* mode) changes it; and whenever the index of a live object in the id
\* table changes, _defrags_count has increased.
C28_GenerationBumped ==
    [][ret'.outcome # "ub" =>
        /\ pool'.defrags_count >= pool.defrags_count
        /\ DoDefrag =>
              pool'.defrags_count =
                  IF pool.holes_size > 0 THEN pool.defrags_count + 1
                  ELSE pool.defrags_count
        /\ pool'.defrags_count # pool.defrags_count =>
              \/ ret'.op = "Defrag"
              \/ ret'.op = "Release" /\ DefragOnRelease(pool)
              \/ ret'.op \in {"Iterate", "IterateEx"} /\ DefragOnIterate(pool)
        /\ \A k \in LiveHandles :
              LET id == handles[k].id IN
              (/\ fate'[k] = "live"
               /\ id \in DOMAIN pool.pointers
               /\ id \in DOMAIN pool'.pointers
               /\ pool'.pointers[id] # pool.pointers[id]) =>
                    pool'.defrags_count > pool.defrags_count]_vars

\* C28, its case: a Defrag() call has just moved a live object away from the
\* index it was allocated at, and _defrags_count is 1
C28_Witness ==
    /\ ret.op = "Defrag" /\ ret.outcome = "ok"
    /\ pool.defrags_count = 1
    /\ \E k \in LiveHandles :
          /\ handles[k].id \in DOMAIN pool.pointers
          /\ pool.pointers[handles[k].id] # handles[k].cached_ptr.index

C30_TrimWhenExceeds ==
    [][(pool'.defrags_count # pool.defrags_count /\ ret'.outcome = "ok") =>
        Len(pool'.objects) =
            IF Len(pool.objects) - (pool'.max_used_index_in_vector + 1)
                   > pool.shrink_pool_threshold
            THEN pool'.max_used_index_in_vector + 1
            ELSE Len(pool.objects)]_vars

\* C30 amended: at the end of a Defrag that closed holes the vector is
\* trimmed to _max_used_index_in_vector + 1 slots exactly when its length
\* minus _max_used_index_in_vector exceeds _shrink_pool_threshold, that is
\* when the number of slots after the last used one reaches the threshold;
\* otherwise it keeps its length.
C30_TrimWhenReaches ==
    [][(pool'.defrags_count # pool.defrags_count /\ ret'.outcome = "ok") =>
        Len(pool'.objects) =
            IF Len(pool.objects) - pool'.max_used_index_in_vector
                   > pool.shrink_pool_threshold
            THEN pool'.max_used_index_in_vector + 1
            ELSE Len(pool.objects)]_vars

\* C30, its case: with a threshold of 1 the first Defrag has ended with
\* exactly one slot after the last used one (the highest index ever handed
\* out is _max_used_index_in_vector + 1) and has trimmed that slot
C30_Witness ==
    /\ ret.op = "Defrag" /\ ret.outcome = "ok"
    /\ pool.defrags_count = 1
    /\ pool.shrink_pool_threshold = 1
    /\ Len(pool.objects) = pool.max_used_index_in_vector + 1
    /\ \E k \in DOMAIN handles :
          handles[k].cached_ptr.index = pool.max_used_index_in_vector + 1
    /\ \A k \in DOMAIN handles :
          handles[k].cached_ptr.index <= pool.max_used_index_in_vector + 1

\* Iterate, the number of passes its for loop begins over the pool q it
\* scans, counted up to and including the first pass that reads outside the
\* vector (what the loop does after that read is not defined)
ScanSteps(q) ==
    IF ScanLast(q) >= Len(q.objects) THEN Len(q.objects) + 1
    ELSE ScanLast(q) + 1

\* C31: every call runs to completion (it returns or throws, and does not
\* run into undefined behaviour); the loop of Defrag makes exactly as many
\* pops as _holes.size() held at entry; and the loop of Iterate makes at
\* most _objects.size() passes.
C31_CallsComplete ==
    [][/\ ret'.outcome # "ub"
       /\ DoDefrag => Len(DefragPops(pool)) = pool.holes_size
       /\ DoIterate => ScanSteps(pool') <= Len(pool'.objects)]_vars

\* C32: a call that fails leaves the pool as it was: after Alloc throws
\* ExceededPoolLimit, Release throws AccessViolation or ClearUnusedMemory
\* throws CannotResizeWhileNotDefragged, the vector, the id table (its keys
\* included), the holes list, _max_used_index_in_vector,
\* _allocated_objects_count, _next_object_id and _defrags_count are what
\* they were before the call.
C32_FailedCallNoChange ==
    [][ret'.outcome \in {"ExceededPoolLimit", "AccessViolation",
                         "CannotResizeWhileNotDefragged"} =>
          pool' = pool]_vars
====
